---- MODULE Spec2Model ----
(***************************************************************************)
(* A model of two sensor platforms of the home-automation hub:             *)
(*                                                                         *)
(*   - homeassistant/components/sense/sensor.py: the Sense energy monitor  *)
(*     sensors (async_setup_entry, class Sense, Sense.async_update);       *)
(*   - the Reddit sensor platform as exercised by                          *)
(*     tests/components/reddit/test_sensor.py.                             *)
(*                                                                         *)
(* Strings that the code transforms (lower-casing, concatenation) are      *)
(* sequences of one-character strings, so that str.lower() is a real       *)
(* function of the characters.  Power and energy readings are fixed-point  *)
(* numbers in hundredths, so that round() is a real function of the value. *)
(***************************************************************************)
EXTENDS Integers, Sequences, FiniteSets, TLC

VARIABLES
    data,      \* the shared Sense client object (hass.data[DOMAIN][entry][SENSE_DATA]):
               \* its monitor id, the readings it holds, and when its
               \* update_trend_data was last invoked
    devices,   \* the entities handed to async_add_entities, in creation order
    throttle,  \* last run time kept by the Throttle around update_trends (NoTime = None)
    now,       \* the clock (utcnow), in seconds
    pc,        \* per entity: "idle", or "awaiting" inside `await self.update_sensor()`
    step,      \* what the latest transition did (the caller's view of the call)
    polled,    \* the entities the host platform polls in this behaviour
    round,     \* bookkeeping of the host platform's polling rounds
    reddit     \* the Reddit platform: configuration, setup outcome, sensors

vars == <<data, devices, throttle, now, pc, step, polled, round, reddit>>

senseVars == <<data, devices, throttle, now, pc, step, polled, round>>

-----------------------------------------------------------------------------
(* Bounds of the model *)

\* the clock advances in steps of ClockStep seconds, up to MaxTime
ClockStep == 150
MaxTime == 450
\* how many entities are polled concurrently in the free-scheduling specification
MaxPolled == 2
\* polling rounds of the round-based specification
MaxRounds == 2

-----------------------------------------------------------------------------
(* Strings as character sequences *)

UPPER == <<"A","B","C","D","E","F","G","H","I","J","K","L","M",
           "N","O","P","Q","R","S","T","U","V","W","X","Y","Z">>
LOWER == <<"a","b","c","d","e","f","g","h","i","j","k","l","m",
           "n","o","p","q","r","s","t","u","v","w","x","y","z">>

\* str.lower() on one character
LowerChar(c) ==
    IF \E k \in 1..Len(UPPER) : UPPER[k] = c
    THEN LOWER[CHOOSE k \in 1..Len(UPPER) : UPPER[k] = c]
    ELSE c

\* str.lower()
Lower(s) == [k \in 1..Len(s) |-> LowerChar(s[k])]

-----------------------------------------------------------------------------
(* Constants of sense/sensor.py *)

ACTIVE_NAME == <<"E","n","e","r","g","y">>
ACTIVE_TYPE == <<"a","c","t","i","v","e">>
CONSUMPTION_NAME == <<"U","s","a","g","e">>
PRODUCTION_NAME == <<"P","r","o","d","u","c","t","i","o","n">>
MIN_TIME_BETWEEN_DAILY_UPDATES == 300

POWER_WATT == "W"
ENERGY_KILO_WATT_HOUR == "kWh"

\* class SensorConfig
SensorConfig(name, sensor_type) == [name |-> name, sensor_type |-> sensor_type]

\* the keys of the SENSOR_TYPES dict, in insertion (= iteration) order
SENSOR_TYPE_IDS ==
    << <<"a","c","t","i","v","e">>,
       <<"d","a","i","l","y">>,
       <<"w","e","e","k","l","y">>,
       <<"m","o","n","t","h","l","y">>,
       <<"y","e","a","r","l","y">> >>

\* SENSOR_TYPES[type_id]
SENSOR_TYPES(type_id) ==
    CASE type_id = <<"a","c","t","i","v","e">> -> SensorConfig(ACTIVE_NAME, ACTIVE_TYPE)
      [] type_id = <<"d","a","i","l","y">> ->
            SensorConfig(<<"D","a","i","l","y">>, <<"D","A","Y">>)
      [] type_id = <<"w","e","e","k","l","y">> ->
            SensorConfig(<<"W","e","e","k","l","y">>, <<"W","E","E","K">>)
      [] type_id = <<"m","o","n","t","h","l","y">> ->
            SensorConfig(<<"M","o","n","t","h","l","y">>, <<"M","O","N","T","H">>)
      [] type_id = <<"y","e","a","r","l","y">> ->
            SensorConfig(<<"Y","e","a","r","l","y">>, <<"Y","E","A","R">>)

SENSOR_VARIANTS == << Lower(PRODUCTION_NAME), Lower(CONSUMPTION_NAME) >>

-----------------------------------------------------------------------------
(* The external Sense client (sense_energy): its readings are inputs *)

Num(v) == [isnum |-> TRUE, v |-> v]
NotNum == [isnum |-> FALSE, v |-> 0]

\* Readings the client may hold after a refresh, in hundredths of a watt /
\* kilowatt-hour.  Reading 3 is a malformed response (no numbers in it).
\* Ties at the rounded digit (2.50, 3.50, 301.25, 700.75) are exactly
\* representable as binary floats.
Readings == {1, 2, 3}

ActivePower(r) == CASE r = 1 -> Num(123456) [] r = 2 -> Num(350) [] OTHER -> NotNum
ActiveSolarPower(r) == CASE r = 1 -> Num(250) [] r = 2 -> Num(81249) [] OTHER -> NotNum

TrendTable(r, scale, is_production) ==
    CASE r = 1 /\ scale = <<"D","A","Y">> /\ is_production -> Num(1234)
      [] r = 1 /\ scale = <<"D","A","Y">> /\ ~is_production -> Num(2566)
      [] r = 1 /\ scale = <<"W","E","E","K">> /\ is_production -> Num(8017)
      [] r = 1 /\ scale = <<"W","E","E","K">> /\ ~is_production -> Num(17742)
      [] r = 1 /\ scale = <<"M","O","N","T","H">> /\ is_production -> Num(30125)
      [] r = 1 /\ scale = <<"M","O","N","T","H">> /\ ~is_production -> Num(70075)
      [] r = 1 /\ scale = <<"Y","E","A","R">> /\ is_production -> Num(365001)
      [] r = 1 /\ scale = <<"Y","E","A","R">> /\ ~is_production -> Num(840099)
      [] r = 2 /\ scale = <<"D","A","Y">> /\ is_production -> Num(1308)
      [] r = 2 /\ scale = <<"D","A","Y">> /\ ~is_production -> Num(2694)
      [] r = 2 /\ scale = <<"W","E","E","K">> /\ is_production -> Num(8091)
      [] r = 2 /\ scale = <<"W","E","E","K">> /\ ~is_production -> Num(17868)
      [] r = 2 /\ scale = <<"M","O","N","T","H">> /\ is_production -> Num(30199)
      [] r = 2 /\ scale = <<"M","O","N","T","H">> /\ ~is_production -> Num(70203)
      [] r = 2 /\ scale = <<"Y","E","A","R">> /\ is_production -> Num(365074)
      [] r = 2 /\ scale = <<"Y","E","A","R">> /\ ~is_production -> Num(840228)
      [] OTHER -> NotNum

\* what the client holds when the entry is set up
InitialReadings == {1}

\* data.active_power, data.active_solar_power, data.get_trend(scale, is_production)
active_power(d) == ActivePower(d.realtime)
active_solar_power(d) == ActiveSolarPower(d.realtime)
get_trend(d, scale, is_production) == TrendTable(d.trend, scale, is_production)

\* data.sense_monitor_id values
MonitorIds == { <<"M","1","2">>, <<"7","f","X">> }

\* what the awaited client refresh can do
SenseAPITimeoutException == "SenseAPITimeoutException"
SenseAuthenticationException == "SenseAuthenticationException"
NoError == "none"
UpdateErrors == {NoError, SenseAPITimeoutException, SenseAuthenticationException}

-----------------------------------------------------------------------------
(* Python's round() *)

\* x in hundredths, rounded half-to-even to a multiple of unit hundredths;
\* the result counts units
RoundHalfEven(x, unit) ==
    LET q == x \div unit
        r == x % unit
    IN  IF 2 * r < unit THEN q
        ELSE IF 2 * r > unit THEN q + 1
        ELSE IF q % 2 = 0 THEN q ELSE q + 1

NoneState == [kind |-> "None", v |-> 0]
\* round(x): an int
RoundInt(x) == [kind |-> "int", v |-> RoundHalfEven(x, 100)]
\* round(x, 1): a float with one decimal, held in tenths
Round1(x) == [kind |-> "float", v |-> RoundHalfEven(x, 10)]

-----------------------------------------------------------------------------
(* class Sense *)

\* the update closures of async_setup_entry
update_active == "update_active"
update_trends == "update_trends"

\* the unit chosen by Sense.__init__
UnitFor(sensor_type) ==
    IF sensor_type = ACTIVE_TYPE THEN POWER_WATT ELSE ENERGY_KILO_WATT_HOUR

\* an entity that is born available
InitialAvailableTrue == TRUE

\* the initial availability and state set by Sense.__init__
InitialAvailable == FALSE
InitialState == NoneState

\* Sense.__init__
Sense(name, sensor_type, is_production, update_call, sensor_id, unique_id) ==
    LET name_type == IF is_production THEN PRODUCTION_NAME ELSE CONSUMPTION_NAME
    IN  [ _name |-> name \o <<" ">> \o name_type,
          _unique_id |-> unique_id,
          _available |-> InitialAvailable,
          _sensor_type |-> sensor_type,
          update_sensor |-> update_call,
          _is_production |-> is_production,
          _state |-> InitialState,
          _unit_of_measurement |-> UnitFor(sensor_type) ]

\* every sensor is given the trend closure
UpdateCallAlwaysTrends(sensor_type) == update_trends

\* the update closure async_setup_entry gives a sensor of this type
UpdateCallFor(sensor_type) ==
    IF sensor_type = ACTIVE_TYPE THEN update_active ELSE update_trends

\* the f-string without .lower()
UniqueIdNoLower(sense_monitor_id, type_id, var) ==
    sense_monitor_id \o <<"-">> \o type_id \o <<"-">> \o var

\* the f-string of async_setup_entry, lower-cased
UniqueId(sense_monitor_id, type_id, var) ==
    Lower(sense_monitor_id \o <<"-">> \o type_id \o <<"-">> \o var)

\* the device built by the body of the nested loops of async_setup_entry
DeviceFor(sense_monitor_id, type_id, var) ==
    LET typ == SENSOR_TYPES(type_id)
        name == typ.name
        sensor_type == typ.sensor_type
        is_production == (var = Lower(PRODUCTION_NAME))
    IN  Sense(name, sensor_type, is_production, UpdateCallFor(sensor_type), var,
              UniqueId(sense_monitor_id, type_id, var))

\* the list `devices` after the loops: for type_id in SENSOR_TYPES, for var in
\* SENSOR_VARIANTS, append
BuildDevices(sense_monitor_id) ==
    LET nv == Len(SENSOR_VARIANTS)
    IN  [ k \in 1..(Len(SENSOR_TYPE_IDS) * nv) |->
            DeviceFor(sense_monitor_id,
                      SENSOR_TYPE_IDS[((k - 1) \div nv) + 1],
                      SENSOR_VARIANTS[((k - 1) % nv) + 1]) ]

Entities == 1..Len(devices)

-----------------------------------------------------------------------------
(* The update closures and homeassistant.util.Throttle *)

NoTime == -1

\* no closure is decorated
NotThrottled(call) == FALSE

\* whether the closure carries the @Throttle decorator
IsThrottled(call) == call = update_trends

\* the client method the closure awaits
DataMethod(call) ==
    IF call = update_trends THEN "update_trend_data" ELSE "update_realtime"

\* Throttle's wrapper: the wrapped function runs when it never ran, or when
\* more than min_time has passed since it last ran
ThrottleAdmits(last, t, min_time) == last = NoTime \/ t - last > min_time

\* whether calling the closure at time t invokes the client method
Invokes(call, last, t) ==
    IsThrottled(call) => ThrottleAdmits(last, t, MIN_TIME_BETWEEN_DAILY_UPDATES)

-----------------------------------------------------------------------------
(* Sense.async_update *)

\* an except clause that names another exception class
CaughtNothing(exc) == FALSE
\* a bare except clause
CaughtAll(exc) == TRUE

\* the except clause of async_update
Caught(exc) == exc = SenseAPITimeoutException

\* the production and usage branches exchanged
FetchedValueSwapped(dev, d) ==
    IF dev._sensor_type = ACTIVE_TYPE
    THEN IF dev._is_production THEN active_power(d) ELSE active_solar_power(d)
    ELSE get_trend(d, dev._sensor_type, ~dev._is_production)

\* the value read from the client after the update call returned
FetchedValue(dev, d) ==
    IF dev._sensor_type = ACTIVE_TYPE
    THEN IF dev._is_production THEN active_solar_power(d) ELSE active_power(d)
    ELSE get_trend(d, dev._sensor_type, dev._is_production)

\* the rounding applied to it
Rounded(dev, x) ==
    IF dev._sensor_type = ACTIVE_TYPE THEN RoundInt(x) ELSE Round1(x)

\* the availability written by the last statement of async_update
AvailableAfterUpdate == TRUE

\* what the latest transition did
NoStep == [entity |-> 0, invoked |-> "none", throttled |-> FALSE,
           update_exc |-> NoError, outcome |-> "none", logged |-> FALSE]

\* async_update writing _state and _available where every entity with the
\* same update closure sees them (class attributes instead of instance ones)
AfterUpdateCallShared(i, exc, d, throttled) ==
    LET dev == devices[i]
        x == FetchedValue(dev, d)
        ok == exc = NoError /\ x.isnum
    IN  /\ devices' =
              IF ok
              THEN [j \in 1..Len(devices) |->
                      IF devices[j].update_sensor = dev.update_sensor
                      THEN [devices[j] EXCEPT !._state = Rounded(dev, x.v),
                                              !._available = AvailableAfterUpdate]
                      ELSE devices[j]]
              ELSE devices
        /\ step' = [entity |-> i, invoked |-> "none", throttled |-> throttled,
                    update_exc |-> exc,
                    outcome |-> IF ok \/ (exc # NoError /\ Caught(exc))
                                THEN "returned" ELSE "raised",
                    logged |-> (exc # NoError /\ Caught(exc))]

\* the part of async_update after `await self.update_sensor()` has finished
\* with exception exc (NoError: it returned); d is the client object then
AfterUpdateCall(i, exc, d, throttled) ==
    LET dev == devices[i]
        x == FetchedValue(dev, d)
    IN  IF exc # NoError /\ Caught(exc)
        THEN \* _LOGGER.error("Timeout retrieving data"); return
             /\ devices' = devices
             /\ step' = [entity |-> i, invoked |-> "none", throttled |-> throttled,
                         update_exc |-> exc, outcome |-> "returned", logged |-> TRUE]
        ELSE IF exc # NoError
        THEN \* not caught: the exception leaves async_update
             /\ devices' = devices
             /\ step' = [entity |-> i, invoked |-> "none", throttled |-> throttled,
                         update_exc |-> exc, outcome |-> "raised", logged |-> FALSE]
        ELSE IF ~x.isnum
        THEN \* round() of a non-number raises TypeError before any assignment
             /\ devices' = devices
             /\ step' = [entity |-> i, invoked |-> "none", throttled |-> throttled,
                         update_exc |-> NoError, outcome |-> "raised", logged |-> FALSE]
        ELSE /\ devices' = [devices EXCEPT ![i]._state = Rounded(dev, x.v),
                                           ![i]._available = AvailableAfterUpdate]
             /\ step' = [entity |-> i, invoked |-> "none", throttled |-> throttled,
                         update_exc |-> NoError, outcome |-> "returned", logged |-> FALSE]

\* async_update up to its first suspension.  An admitted call starts the client
\* method and suspends in it (Throttle records the time when it creates the
\* coroutine); a throttled call returns None at once and async_update runs on.
AsyncUpdateBegin(i) ==
    /\ i \in Entities
    /\ pc[i] = "idle"
    /\ LET call == devices[i].update_sensor
       IN  IF Invokes(call, throttle, now)
           THEN /\ throttle' = IF IsThrottled(call) THEN now ELSE throttle
                /\ pc' = [pc EXCEPT ![i] = "awaiting"]
                /\ step' = [entity |-> i, invoked |-> DataMethod(call),
                            throttled |-> FALSE, update_exc |-> NoError,
                            outcome |-> "suspended", logged |-> FALSE]
                /\ data' = IF DataMethod(call) = "update_trend_data"
                           THEN [data EXCEPT !.trend_called = now]
                           ELSE data
                /\ devices' = devices
           ELSE /\ AfterUpdateCall(i, NoError, data, TRUE)
                /\ UNCHANGED <<throttle, pc, data>>
    /\ now' = now

\* the client method finishes: it stored reading r, or it raised exc
AsyncUpdateResume(i, exc, r) ==
    /\ i \in Entities
    /\ pc[i] = "awaiting"
    /\ LET method == DataMethod(devices[i].update_sensor)
           d == IF exc # NoError THEN data
                ELSE IF method = "update_realtime"
                THEN [data EXCEPT !.realtime = r]
                ELSE [data EXCEPT !.trend = r]
       IN  /\ data' = d
           /\ AfterUpdateCall(i, exc, d, FALSE)
    /\ pc' = [pc EXCEPT ![i] = "idle"]
    /\ UNCHANGED <<throttle, now>>

-----------------------------------------------------------------------------
(* async_setup_entry and the host platform *)

NoRound == [n |-> 0, next |-> 0, finished |-> 0, start |-> 0,
            update_realtime |-> 0, update_trend_data |-> 0]

\* the Reddit platform is not configured
NoReddit == [config |-> [subreddits |-> <<>>, sort_by |-> {}, maximum |-> {}],
             setup |-> "unconfigured", sensors |-> <<>>]

\* async_setup_entry: builds the devices and hands them to async_add_entities
AsyncSetupEntry ==
    /\ devices = <<>>
    /\ devices' = BuildDevices(data.sense_monitor_id)
    /\ pc' = [k \in 1..Len(devices') |-> "idle"]
    /\ step' = NoStep
    /\ UNCHANGED <<data, throttle, now>>

\* time passes
Tick ==
    /\ now + ClockStep <= MaxTime
    /\ now' = now + ClockStep
    /\ step' = NoStep
    /\ UNCHANGED <<data, devices, throttle, pc, polled, round, reddit>>

\* the client method awaited by entity i finishes, with a reading or an error
Finish(i) ==
    \E exc \in UpdateErrors, r \in Readings :
        /\ (exc # NoError => r = 1)
        /\ AsyncUpdateResume(i, exc, r)

(* Free scheduling: the host platform polls MaxPolled neighbouring entities, *)
(* each at any time it is not already being updated.                         *)

Setup ==
    /\ \E k \in 1..(Len(SENSOR_TYPE_IDS) * Len(SENSOR_VARIANTS)) :
          /\ polled' = k..(k + MaxPolled - 1)
          /\ AsyncSetupEntry
          /\ polled' \subseteq 1..Len(devices')
    /\ UNCHANGED <<round, reddit>>

Poll(i) ==
    /\ i \in polled
    /\ AsyncUpdateBegin(i)
    /\ UNCHANGED <<polled, round, reddit>>

Resume(i) ==
    /\ Finish(i)
    /\ UNCHANGED <<polled, round, reddit>>

\* before async_setup_entry has run
SenseInit ==
    /\ data \in [sense_monitor_id : MonitorIds, realtime : InitialReadings,
                 trend : InitialReadings, trend_called : {NoTime}]
    /\ devices = <<>>
    /\ throttle = NoTime
    /\ now = 0
    /\ pc = <<>>
    /\ step = NoStep
    /\ polled = {}
    /\ round = NoRound

Init ==
    /\ SenseInit
    /\ reddit = NoReddit

Next ==
    \/ Setup
    \/ Tick
    \/ \E i \in Entities : Poll(i)
    \/ \E i \in Entities : Resume(i)

Spec == Init /\ [][Next]_vars

(* Polling rounds: in each round the host platform runs async_update of      *)
(* every entity once, in list order, one update after the other; a new round *)
(* starts when all have finished.  Time may pass between any two steps.      *)

RoundSetup ==
    /\ AsyncSetupEntry
    /\ polled' = 1..Len(devices')
    /\ round' = [NoRound EXCEPT !.n = 1, !.next = 1, !.start = now]
    /\ UNCHANGED reddit

\* one more invocation of the client method named m ("none": no invocation)
Counted(rnd, m) ==
    CASE m = "update_realtime" -> [rnd EXCEPT !.update_realtime = @ + 1]
      [] m = "update_trend_data" -> [rnd EXCEPT !.update_trend_data = @ + 1]
      [] OTHER -> rnd

InFlight == {j \in Entities : pc[j] = "awaiting"}

RoundPoll ==
    /\ round.n >= 1
    /\ round.next \in Entities
    /\ InFlight = {}
    /\ AsyncUpdateBegin(round.next)
    /\ round' = [Counted(round, step'.invoked) EXCEPT
                    !.next = @ + 1,
                    !.finished = IF step'.outcome = "suspended" THEN @ ELSE @ + 1]
    /\ UNCHANGED <<polled, reddit>>

RoundResume(i) ==
    /\ Finish(i)
    /\ round' = [round EXCEPT !.finished = @ + 1]
    /\ UNCHANGED <<polled, reddit>>

NextRound ==
    /\ round.n >= 1
    /\ round.n < MaxRounds
    /\ round.finished = Len(devices)
    /\ round' = [NoRound EXCEPT !.n = round.n + 1, !.next = 1, !.start = now]
    /\ step' = NoStep
    /\ UNCHANGED <<data, devices, throttle, now, pc, polled, reddit>>

NextRounds ==
    \/ RoundSetup
    \/ Tick
    \/ RoundPoll
    \/ \E i \in Entities : RoundResume(i)
    \/ NextRound

InitRounds == Init /\ data.sense_monitor_id = <<"M","1","2">>

SpecRounds == InitRounds /\ [][NextRounds]_vars

-----------------------------------------------------------------------------
(* The Reddit platform: the mocked client of tests/components/reddit *)

\* the configurations of the test module; an optional key is a set that is
\* empty when the key is absent
VALID_CONFIG ==
    [subreddits |-> <<"worldnews", "news">>, sort_by |-> {}, maximum |-> {}]
VALID_LIMITED_CONFIG ==
    [subreddits |-> <<"worldnews", "news">>, sort_by |-> {}, maximum |-> {1}]
INVALID_SORT_BY_CONFIG ==
    [subreddits |-> <<"worldnews", "news">>, sort_by |-> {"invalid_sort_by"},
     maximum |-> {}]

MOCK_RESULTS ==
    << [id |-> 0, url |-> "http://example.com/1", title |-> "example1",
        score |-> "1", num_comments |-> "1", created |-> "",
        selftext |-> "example1 selftext"],
       [id |-> 1, url |-> "http://example.com/2", title |-> "example2",
        score |-> "2", num_comments |-> "2", created |-> "",
        selftext |-> "example2 selftext"] >>

MOCK_RESULTS_LENGTH == Len(MOCK_RESULTS)

\* Python's seq[:limit] for limit >= 0
SliceTo(seq, limit) == SubSeq(seq, 1, IF limit < Len(seq) THEN limit ELSE Len(seq))

\* the slice taken from the wrong end: data["results"][limit:]
MockReturnDataFrom(limit) ==
    SubSeq(MOCK_RESULTS, (IF limit < Len(MOCK_RESULTS) THEN limit ELSE Len(MOCK_RESULTS)) + 1,
           Len(MOCK_RESULTS))

\* MockSubreddit._return_data
MockReturnData(limit) == SliceTo(MOCK_RESULTS, limit)

\* the listing methods MockSubreddit has
MockSubredditMethods == {"top", "controversial", "hot", "new"}

\* MockSubreddit.top / controversial / hot / new
MockSubredditCall(method, limit) == MockReturnData(limit)

-----------------------------------------------------------------------------
(* The Reddit platform: the sensor *)

\* the sort orders the platform schema accepts, and its defaults
LIST_TYPES == {"top", "controversial", "hot", "new"}
DEFAULT_SORT_BY == "hot"
DEFAULT_MAXIMUM == 10

\* an optional key's value, or its default
Get(opt, default) == IF opt = {} THEN default ELSE CHOOSE x \in opt : TRUE

\* a schema that accepts any string as sort_by
ValidSortByAny(opt) == TRUE

\* the platform schema's check of sort_by
ValidSortBy(opt) == \A x \in opt : x \in LIST_TYPES

\* the platform schema's check of the whole configuration
ValidRedditConfig(config) ==
    /\ ValidSortBy(config.sort_by)
    /\ \A m \in config.maximum : m > 0

\* one submission copied into the posts attribute
PostOf(submission) ==
    [id |-> submission.id, url |-> submission.url, title |-> submission.title,
     score |-> submission.score, comms_num |-> submission.num_comments,
     created |-> submission.created, body |-> submission.selftext]

\* RedditSensor.__init__
RedditSensor(subreddit, limit, sort_by) ==
    [_subreddit |-> subreddit, _limit |-> limit, _sort_by |-> sort_by,
     _subreddit_data |-> <<>>, written |-> FALSE]

\* RedditSensor.name, and the entity id the host platform derives from it
RedditName(sensor) == "reddit_" \o sensor._subreddit
RedditEntityId(sensor) == "sensor." \o RedditName(sensor)

\* RedditSensor.state and RedditSensor.device_state_attributes
RedditState(sensor) == Len(sensor._subreddit_data)
RedditAttributes(sensor) ==
    [subreddit |-> sensor._subreddit, posts |-> sensor._subreddit_data,
     sort_by |-> sensor._sort_by]

\* the entity ids that have a state in the state machine
RedditStates ==
    {RedditEntityId(reddit.sensors[k]) :
        k \in {j \in 1..Len(reddit.sensors) : reddit.sensors[j].written}}

\* setup_component(hass, "sensor", config): the schema rejects the platform, or
\* setup_platform creates one sensor per subreddit
RedditSetup ==
    /\ reddit.setup = "none"
    /\ LET config == reddit.config
           limit == Get(config.maximum, DEFAULT_MAXIMUM)
           sort_by == Get(config.sort_by, DEFAULT_SORT_BY)
       IN  IF ValidRedditConfig(config)
           THEN reddit' = [reddit EXCEPT
                    !.setup = "ok",
                    !.sensors = [k \in 1..Len(config.subreddits) |->
                                    RedditSensor(config.subreddits[k], limit, sort_by)]]
           ELSE reddit' = [reddit EXCEPT !.setup = "rejected"]
    /\ UNCHANGED senseVars

\* RedditSensor.update, after which the host platform writes the state
RedditUpdate(k) ==
    /\ k \in 1..Len(reddit.sensors)
    /\ LET sensor == reddit.sensors[k]
           submissions == IF sensor._sort_by \in MockSubredditMethods
                          THEN MockSubredditCall(sensor._sort_by, sensor._limit)
                          ELSE <<>>
       IN  reddit' = [reddit EXCEPT
               !.sensors[k]._subreddit_data =
                   [j \in 1..Len(submissions) |-> PostOf(submissions[j])],
               !.sensors[k].written = TRUE]
    /\ UNCHANGED senseVars

RedditConfigs ==
    [subreddits : {<<"worldnews", "news">>, <<"news">>, <<"news", "worldnews">>},
     sort_by : {{}, {"top"}, {"controversial"}, {"hot"}, {"new"}, {"invalid_sort_by"}},
     maximum : {{}, {1}, {2}, {3}}]

InitReddit ==
    /\ SenseInit
    /\ data.sense_monitor_id = <<"M","1","2">>
    /\ reddit \in [config : RedditConfigs, setup : {"none"}, sensors : {<<>>}]

NextReddit ==
    \/ RedditSetup
    \/ \E k \in 1..Len(reddit.sensors) : RedditUpdate(k)

SpecReddit == InitReddit /\ [][NextReddit]_vars

-----------------------------------------------------------------------------
(* Properties of the Sense sensors *)

IsActive(e) == devices[e]._sensor_type = ACTIVE_TYPE

\* C1: when the update call of an entity raises SenseAPITimeoutException,
\* async_update returns normally, the timeout is logged, and the entity's
\* state and availability are what they were before the call.
C1_TimeoutKeepsState ==
    [][ step'.update_exc = SenseAPITimeoutException =>
          /\ step'.outcome = "returned"
          /\ step'.logged
          /\ devices'[step'.entity]._state = devices[step'.entity]._state
          /\ devices'[step'.entity]._available = devices[step'.entity]._available
      ]_vars

\* a timeout hit an entity that had a state, while the client holds other data
C1_Witness ==
    /\ step.update_exc = SenseAPITimeoutException
    /\ step.outcome = "returned"
    /\ devices[step.entity]._state = [kind |-> "int", v |-> 1235]
    /\ data.realtime = 2

\* the reading the entity reads its value from
ReadingOf(e, d) == IF IsActive(e) THEN d.realtime ELSE d.trend

\* C2: an error other than SenseAPITimeoutException, raised by the update call
\* or by reading and rounding the fetched value, leaves async_update, and the
\* call does not set the availability flag.
C2_OtherErrorsPropagate ==
    [][ \A e \in Entities :
          ( /\ step'.entity = e
            /\ step'.outcome # "suspended"
            /\ \/ step'.update_exc \notin {NoError, SenseAPITimeoutException}
               \/ step'.update_exc = NoError /\ ReadingOf(e, data') = 3 )
          => /\ step'.outcome = "raised"
             /\ ~step'.logged
             /\ devices'[e]._available = devices[e]._available
      ]_vars

\* an authentication error left async_update of an entity that stays unavailable
C2_Witness ==
    /\ step.update_exc = SenseAuthenticationException
    /\ step.outcome = "raised"
    /\ ~devices[step.entity]._available

\* C6: update_trend_data is never invoked twice less than 300 seconds apart,
\* whichever of the eight trend sensors ask for it, and every async_update of
\* an active sensor invokes update_realtime.
C6_TrendThrottled ==
    [][ /\ (step'.invoked = "update_trend_data" /\ data.trend_called # NoTime)
             => now' - data.trend_called >= 300
        /\ \A e \in Entities :
             (step'.entity = e /\ pc[e] = "idle")
             => IF IsActive(e)
                THEN step'.invoked = "update_realtime" /\ ~step'.throttled
                ELSE step'.invoked \in {"update_trend_data", "none"}
      ]_vars

\* a trend refresh asked for exactly 300 seconds after the last one is
\* throttled, by another sensor than the one that started it
C6_Witness ==
    /\ step.throttled
    /\ data.trend_called # NoTime
    /\ now - data.trend_called = 300
    /\ \E e \in Entities : e # step.entity /\ ~IsActive(e) /\ pc[e] = "awaiting"

\* the unique id expected of the entity of this type and variant
ExpectedUniqueId(type_id, var) ==
    Lower(data.sense_monitor_id) \o <<"-">> \o type_id \o <<"-">> \o var

\* C7: async_setup_entry registers exactly 10 entities, one for every (type,
\* variant) pair; their unique ids are the lower-cased <monitor id>-<type>-
\* <variant> and pairwise distinct; the two active entities use the
\* unthrottled realtime update and the watt unit, the other eight the
\* throttled trend update and the kilowatt-hour unit.
C7_TenEntities ==
    devices # <<>> =>
      /\ Len(devices) = 10
      /\ \A t \in {<<"a","c","t","i","v","e">>, <<"D","A","Y">>, <<"W","E","E","K">>,
                   <<"M","O","N","T","H">>, <<"Y","E","A","R">>}, p \in BOOLEAN :
            Cardinality({e \in Entities : devices[e]._sensor_type = t
                                          /\ devices[e]._is_production = p}) = 1
      /\ devices[1]._unique_id = ExpectedUniqueId(<<"a","c","t","i","v","e">>, <<"p","r","o","d","u","c","t","i","o","n">>)
      /\ devices[2]._unique_id = ExpectedUniqueId(<<"a","c","t","i","v","e">>, <<"u","s","a","g","e">>)
      /\ devices[3]._unique_id = ExpectedUniqueId(<<"d","a","i","l","y">>, <<"p","r","o","d","u","c","t","i","o","n">>)
      /\ devices[4]._unique_id = ExpectedUniqueId(<<"d","a","i","l","y">>, <<"u","s","a","g","e">>)
      /\ devices[5]._unique_id = ExpectedUniqueId(<<"w","e","e","k","l","y">>, <<"p","r","o","d","u","c","t","i","o","n">>)
      /\ devices[6]._unique_id = ExpectedUniqueId(<<"w","e","e","k","l","y">>, <<"u","s","a","g","e">>)
      /\ devices[7]._unique_id = ExpectedUniqueId(<<"m","o","n","t","h","l","y">>, <<"p","r","o","d","u","c","t","i","o","n">>)
      /\ devices[8]._unique_id = ExpectedUniqueId(<<"m","o","n","t","h","l","y">>, <<"u","s","a","g","e">>)
      /\ devices[9]._unique_id = ExpectedUniqueId(<<"y","e","a","r","l","y">>, <<"p","r","o","d","u","c","t","i","o","n">>)
      /\ devices[10]._unique_id = ExpectedUniqueId(<<"y","e","a","r","l","y">>, <<"u","s","a","g","e">>)
      /\ \A e \in Entities : \A k \in 1..Len(devices[e]._unique_id) :
            \A u \in 1..Len(UPPER) : devices[e]._unique_id[k] # UPPER[u]
      /\ \A e1, e2 \in Entities :
            e1 # e2 => devices[e1]._unique_id # devices[e2]._unique_id
      /\ \A e \in Entities :
            IF devices[e]._sensor_type = <<"a","c","t","i","v","e">>
            THEN /\ devices[e].update_sensor = "update_active"
                 /\ ~IsThrottled(devices[e].update_sensor)
                 /\ DataMethod(devices[e].update_sensor) = "update_realtime"
                 /\ devices[e]._unit_of_measurement = "W"
            ELSE /\ devices[e].update_sensor = "update_trends"
                 /\ IsThrottled(devices[e].update_sensor)
                 /\ DataMethod(devices[e].update_sensor) = "update_trend_data"
                 /\ devices[e]._unit_of_measurement = "kWh"
      /\ Cardinality({e \in Entities : IsActive(e)}) = 2

\* the entities of a monitor whose id has an upper-case letter exist
C7_Witness ==
    /\ Len(devices) = 10
    /\ data.sense_monitor_id = <<"M","1","2">>
    /\ devices[8]._unique_id =
          <<"m","1","2","-","m","o","n","t","h","l","y","-","u","s","a","g","e">>
    /\ devices[8]._name =
          <<"M","o","n","t","h","l","y"," ","U","s","a","g","e">>

\* the states expected of the ten entities, by the reading the client holds:
\* Python's round() of the reading's values, worked by hand
ExpectedStates(r) ==
    IF r = 1
    THEN << [kind |-> "int", v |-> 2],        [kind |-> "int", v |-> 1235],
            [kind |-> "float", v |-> 123],    [kind |-> "float", v |-> 257],
            [kind |-> "float", v |-> 802],    [kind |-> "float", v |-> 1774],
            [kind |-> "float", v |-> 3012],   [kind |-> "float", v |-> 7008],
            [kind |-> "float", v |-> 36500],  [kind |-> "float", v |-> 84010] >>
    ELSE << [kind |-> "int", v |-> 812],      [kind |-> "int", v |-> 4],
            [kind |-> "float", v |-> 131],    [kind |-> "float", v |-> 269],
            [kind |-> "float", v |-> 809],    [kind |-> "float", v |-> 1787],
            [kind |-> "float", v |-> 3020],   [kind |-> "float", v |-> 7020],
            [kind |-> "float", v |-> 36507],  [kind |-> "float", v |-> 84023] >>

\* C8: after an async_update whose update call does not raise, the state is
\* the client's value for the entity's own kind, range and variant, rounded
\* to an integer (active) or to one decimal (trend), and the entity is
\* available.
C8_StateFromOwnValue ==
    [][ \A e \in Entities :
          ( /\ step'.entity = e
            /\ step'.outcome = "returned"
            /\ step'.update_exc = NoError )
          => /\ ReadingOf(e, data') \in {1, 2}
             /\ devices'[e]._state = ExpectedStates(ReadingOf(e, data'))[e]
             /\ devices'[e]._available
      ]_vars

\* the monthly production sensor took 301.25 kWh as 301.2
C8_Witness ==
    /\ step.entity = 7
    /\ step.outcome = "returned"
    /\ step.update_exc = NoError
    /\ ~step.throttled
    /\ devices[7]._state = [kind |-> "float", v |-> 3012]

\* C9: an entity is unavailable with state None from creation until its first
\* async_update that ends without an error, becomes available at that update
\* with a state, and never becomes unavailable again.
C9_AvailabilityMonotonic ==
    /\ [](\A e \in Entities :
            devices[e]._available <=> devices[e]._state # [kind |-> "None", v |-> 0])
    /\ [][ \A e \in Entities :
             /\ devices[e]._available => devices'[e]._available
             /\ (~devices[e]._available /\ devices'[e]._available)
                  => /\ step'.entity = e
                     /\ step'.outcome = "returned"
                     /\ step'.update_exc = NoError
         ]_vars

\* an entity stays available through an update that raised
C9_Witness ==
    /\ step.entity # 0
    /\ step.outcome = "raised"
    /\ devices[step.entity]._available

\* the attributes of an entity that async_update does not write
Fixed(dev) ==
    <<dev._name, dev._unit_of_measurement, dev._unique_id, dev._sensor_type,
      dev._is_production, dev.update_sensor>>

\* C10: a step of the async_update of one entity writes only that entity's
\* state and availability; every other entity, and every entity's name, unit,
\* unique id, sensor type and production flag, are left as they were.
C10_OnlyOwnState ==
    [][ devices # <<>> =>
          /\ Len(devices') = Len(devices)
          /\ \A e \in Entities :
                /\ Fixed(devices'[e]) = Fixed(devices[e])
                /\ devices'[e] # devices[e] => step'.entity = e
      ]_vars

\* an entity got its state while the update of another one was suspended
C10_Witness ==
    /\ step.entity # 0
    /\ step.outcome = "returned"
    /\ devices[step.entity]._available
    /\ \E e \in Entities :
          /\ e # step.entity
          /\ pc[e] = "awaiting"
          /\ ~devices[e]._available

\* every entity has run async_update once in the current round
RoundComplete == round.n >= 1 /\ round.finished = Len(devices)

\* C5 as stated: in a polling round in which every entity runs async_update
\* once, update_realtime is invoked at most once and update_trend_data at most
\* once.
C5_OneCallPerKind ==
    RoundComplete => round.update_realtime <= 1 /\ round.update_trend_data <= 1

\* C5 as amended: in such a round update_realtime is invoked once per active
\* entity, twice in all, and update_trend_data at most once when the round
\* lasts no longer than 300 seconds.
C5_OneCallPerActiveEntity ==
    RoundComplete =>
      /\ round.update_realtime = 2
      /\ now - round.start <= 300 => round.update_trend_data <= 1

\* a round ended with two realtime refreshes and one trend refresh
C5_Witness ==
    /\ RoundComplete
    /\ round.update_realtime = 2
    /\ round.update_trend_data = 1
    /\ now - round.start <= 300

-----------------------------------------------------------------------------
(* Properties of the Reddit platform *)

\* the posts attribute expected for the mocked response
ExpectedPosts ==
    << [id |-> 0, url |-> "http://example.com/1", title |-> "example1",
        score |-> "1", comms_num |-> "1", created |-> "",
        body |-> "example1 selftext"],
       [id |-> 1, url |-> "http://example.com/2", title |-> "example2",
        score |-> "2", comms_num |-> "2", created |-> "",
        body |-> "example2 selftext"] >>

RecognizedSortOrders == {"top", "controversial", "hot", "new"}

\* the number of posts the mocked client returns for this configuration
ReturnedCount(config) ==
    IF config.maximum = {1} THEN 1 ELSE 2

\* C3: with a valid configuration, setup creates one sensor per subreddit,
\* named sensor.reddit_<subreddit>; after its first update a sensor's state is
\* the number of posts the client returned, its subreddit attribute the
\* subreddit, its posts attribute the returned posts in order with their
\* fields copied, and its sort_by attribute "hot" when none is configured.
C3_ValidSetup ==
    ( /\ reddit.setup \notin {"none", "unconfigured"}
      /\ reddit.config.sort_by \subseteq RecognizedSortOrders )
    => /\ reddit.setup = "ok"
       /\ Len(reddit.sensors) = Len(reddit.config.subreddits)
       /\ \A k \in 1..Len(reddit.sensors) :
            LET sensor == reddit.sensors[k]
                n == ReturnedCount(reddit.config)
            IN  /\ RedditEntityId(sensor) = "sensor.reddit_" \o reddit.config.subreddits[k]
                /\ sensor.written =>
                     /\ RedditState(sensor) = n
                     /\ RedditAttributes(sensor).subreddit = reddit.config.subreddits[k]
                     /\ RedditAttributes(sensor).posts = SubSeq(ExpectedPosts, 1, n)
                     /\ reddit.config.sort_by = {}
                          => RedditAttributes(sensor).sort_by = "hot"

\* the test's configuration: both sensors hold the two mocked posts
C3_Witness ==
    /\ reddit.config = VALID_CONFIG
    /\ RedditStates = {"sensor.reddit_worldnews", "sensor.reddit_news"}
    /\ RedditState(reddit.sensors[2]) = MOCK_RESULTS_LENGTH
    /\ RedditAttributes(reddit.sensors[2]).subreddit = "news"
    /\ RedditAttributes(reddit.sensors[2]).posts[1] = ExpectedPosts[1]
    /\ RedditAttributes(reddit.sensors[2]).sort_by = "hot"

\* C4: when the configured sort_by is not a recognized sort order, setup is
\* rejected and no Reddit sensor gets a state, for any configured subreddit.
C4_InvalidSortByRejected ==
    ( /\ reddit.setup \notin {"none", "unconfigured"}
      /\ ~(reddit.config.sort_by \subseteq RecognizedSortOrders) )
    => /\ reddit.setup = "rejected"
       /\ reddit.sensors = <<>>
       /\ RedditStates = {}

\* the test's invalid configuration was rejected
C4_Witness ==
    /\ reddit.config = INVALID_SORT_BY_CONFIG
    /\ reddit.setup = "rejected"
    /\ "sensor.reddit_worldnews" \notin RedditStates

====
